---- MODULE Spec2Model ----
(***************************************************************************)
(* Personal Library Manager: the record store shared by the text-menu      *)
(* front-end (library_manager.py) and the web-form front-end (app.py).     *)
(*                                                                         *)
(* Text is a sequence of one-character strings, so that lower(), strip(),  *)
(* the substring test and the code-point ordering are computed and not     *)
(* assumed.  The backing file is a sequence of JSON tokens (or absent);    *)
(* json.dump writes it and json.load parses it.                            *)
(***************************************************************************)
EXTENDS Integers, Sequences, FiniteSets, TLC

VARIABLES ui, pc, disk, loaded, library, op, arg, out, nops

vars == <<ui, pc, disk, loaded, library, op, arg, out, nops>>

(* Bound of the model: mutating calls (add / remove / edit) per session.   *)
MaxOps == 3

----------------------------------------------------------------------------
(* Text: Python str restricted to a small alphabet.                        *)

\* ord(c)
Ord(c) ==
  CASE c = " " -> 32 [] c = "-" -> 45
    [] c = "D" -> 68 [] c = "E" -> 69 [] c = "H" -> 72 [] c = "S" -> 83
    [] c = "Y" -> 89
    [] c = "d" -> 100 [] c = "e" -> 101 [] c = "h" -> 104 [] c = "n" -> 110
    [] c = "o" -> 111 [] c = "s" -> 115 [] c = "u" -> 117 [] c = "y" -> 121
    [] OTHER -> 0

LowerChar(c) ==
  CASE c = "D" -> "d" [] c = "E" -> "e" [] c = "H" -> "h" [] c = "S" -> "s"
    [] c = "Y" -> "y" [] OTHER -> c

\* str.lower()
Lower(s) == [i \in 1..Len(s) |-> LowerChar(s[i])]

RECURSIVE LStrip(_)
LStrip(s) == IF s # <<>> /\ Head(s) = " " THEN LStrip(Tail(s)) ELSE s

RECURSIVE RStrip(_)
RStrip(s) ==
  IF s # <<>> /\ s[Len(s)] = " " THEN RStrip(SubSeq(s, 1, Len(s) - 1)) ELSE s

\* str.strip()
Strip(s) == RStrip(LStrip(s))

\* q in s
Contains(s, q) ==
  \E i \in 0..(Len(s) - Len(q)) : SubSeq(s, i + 1, i + Len(q)) = q

\* s < t on str: lexicographic by code point
RECURSIVE StrLess(_, _)
StrLess(s, t) ==
  IF t = <<>> THEN FALSE
  ELSE IF s = <<>> THEN TRUE
  ELSE IF Ord(Head(s)) # Ord(Head(t)) THEN Ord(Head(s)) < Ord(Head(t))
  ELSE StrLess(Tail(s), Tail(t))

\* bool(s) for a str: non-empty
Truthy(s) == s # <<>>

----------------------------------------------------------------------------
(* The persisted format: json.dump(library, file, indent=4) and            *)
(* json.load(file), at the level of JSON tokens.  A token is [k, s]: k is  *)
(* the punctuation mark or "str" / "num" / "true" / "false", s the text of *)
(* a string or the digits of a number.  Field names are kept as one-item   *)
(* texts.                                                                  *)

Tok(k) == [k |-> k, s |-> <<>>]
StrTok(s) == [k |-> "str", s |-> s]
KeyTok(name) == [k |-> "str", s |-> <<name>>]

Digit(d) ==
  CASE d = 0 -> "0" [] d = 1 -> "1" [] d = 2 -> "2" [] d = 3 -> "3"
    [] d = 4 -> "4" [] d = 5 -> "5" [] d = 6 -> "6" [] d = 7 -> "7"
    [] d = 8 -> "8" [] OTHER -> "9"

DigitVal(c) ==
  CASE c = "0" -> 0 [] c = "1" -> 1 [] c = "2" -> 2 [] c = "3" -> 3
    [] c = "4" -> 4 [] c = "5" -> 5 [] c = "6" -> 6 [] c = "7" -> 7
    [] c = "8" -> 8 [] OTHER -> 9

RECURSIVE NatToDigits(_)
NatToDigits(n) ==
  IF n < 10 THEN <<Digit(n)>> ELSE Append(NatToDigits(n \div 10), Digit(n % 10))

\* the decimal text json.dump writes for an int
IntToDigits(n) == IF n < 0 THEN <<"-">> \o NatToDigits(-n) ELSE NatToDigits(n)

RECURSIVE DigitsToNat(_)
DigitsToNat(s) ==
  IF s = <<>> THEN 0
  ELSE 10 * DigitsToNat(SubSeq(s, 1, Len(s) - 1)) + DigitVal(s[Len(s)])

\* the int json.load reads from a decimal text
DigitsToInt(s) ==
  IF s # <<>> /\ Head(s) = "-" THEN -DigitsToNat(Tail(s)) ELSE DigitsToNat(s)

NumTok(n) == [k |-> "num", s |-> IntToDigits(n)]
BoolTok(b) == Tok(IF b THEN "true" ELSE "false")

\* DumpBook with the title written in lower case
DumpBookLower(b) ==
  << Tok("{"),
     KeyTok("Title"),  Tok(":"), StrTok(Lower(b.Title)), Tok(","),
     KeyTok("Author"), Tok(":"), StrTok(b.Author), Tok(","),
     KeyTok("Year"),   Tok(":"), NumTok(b.Year),   Tok(","),
     KeyTok("Genre"),  Tok(":"), StrTok(b.Genre),  Tok(","),
     KeyTok("Read"),   Tok(":"), BoolTok(b.Read),
     Tok("}") >>

\* one dict of the list, keys in insertion order
DumpBook(b) ==
  << Tok("{"),
     KeyTok("Title"),  Tok(":"), StrTok(b.Title),  Tok(","),
     KeyTok("Author"), Tok(":"), StrTok(b.Author), Tok(","),
     KeyTok("Year"),   Tok(":"), NumTok(b.Year),   Tok(","),
     KeyTok("Genre"),  Tok(":"), StrTok(b.Genre),  Tok(","),
     KeyTok("Read"),   Tok(":"), BoolTok(b.Read),
     Tok("}") >>

RECURSIVE DumpItems(_)
DumpItems(lib) ==
  IF lib = <<>> THEN <<>>
  ELSE IF Len(lib) = 1 THEN DumpBook(lib[1])
  ELSE DumpBook(Head(lib)) \o <<Tok(",")>> \o DumpItems(Tail(lib))

\* json.dump(library, file, indent=4): the token text of the whole list
json_dump(lib) == <<Tok("[")>> \o DumpItems(lib) \o <<Tok("]")>>

(* Parsed JSON values are tagged: [t |-> "str" | "int" | "bool" | "list" | *)
(* "obj", v |-> ...]; a list's v is a sequence of values, an object's v a  *)
(* sequence of [key, val] members in file order.                           *)
JStr(s) == [t |-> "str", v |-> s]
JInt(n) == [t |-> "int", v |-> n]
JBool(b) == [t |-> "bool", v |-> b]
JList(xs) == [t |-> "list", v |-> xs]
JObj(ms) == [t |-> "obj", v |-> ms]

ParseFail == [ok |-> FALSE, val |-> JList(<<>>), rest |-> <<>>]
ParseOk(v, rest) == [ok |-> TRUE, val |-> v, rest |-> rest]

RECURSIVE ParseValue(_), ParseElems(_, _), ParseMembers(_, _)

\* one JSON value at the head of ts
ParseValue(ts) ==
  IF ts = <<>> THEN ParseFail
  ELSE LET h == Head(ts)
           r == Tail(ts)
       IN CASE h.k = "str" -> ParseOk(JStr(h.s), r)
            [] h.k = "num" -> ParseOk(JInt(DigitsToInt(h.s)), r)
            [] h.k = "true" -> ParseOk(JBool(TRUE), r)
            [] h.k = "false" -> ParseOk(JBool(FALSE), r)
            [] h.k = "[" ->
                 IF r # <<>> /\ Head(r).k = "]"
                 THEN ParseOk(JList(<<>>), Tail(r))
                 ELSE ParseElems(r, <<>>)
            [] h.k = "{" ->
                 IF r # <<>> /\ Head(r).k = "}"
                 THEN ParseOk(JObj(<<>>), Tail(r))
                 ELSE ParseMembers(r, <<>>)
            [] OTHER -> ParseFail

\* value ("," value)* "]"
ParseElems(ts, acc) ==
  LET e == ParseValue(ts)
  IN IF ~e.ok \/ e.rest = <<>> THEN ParseFail
     ELSE LET sep == Head(e.rest).k
              more == Append(acc, e.val)
          IN IF sep = "]" THEN ParseOk(JList(more), Tail(e.rest))
             ELSE IF sep = "," THEN ParseElems(Tail(e.rest), more)
             ELSE ParseFail

\* str ":" value ("," str ":" value)* "}"
ParseMembers(ts, acc) ==
  IF Len(ts) < 2 \/ ts[1].k # "str" \/ ts[2].k # ":" THEN ParseFail
  ELSE LET e == ParseValue(SubSeq(ts, 3, Len(ts)))
       IN IF ~e.ok \/ e.rest = <<>> THEN ParseFail
          ELSE LET sep == Head(e.rest).k
                   more == Append(acc, [key |-> ts[1].s, val |-> e.val])
               IN IF sep = "}" THEN ParseOk(JObj(more), Tail(e.rest))
                  ELSE IF sep = "," THEN ParseMembers(Tail(e.rest), more)
                  ELSE ParseFail

\* json.load(file): the value, or JSONDecodeError (ok = FALSE); text after
\* the value is "Extra data"
json_load(ts) ==
  LET r == ParseValue(ts)
  IN IF r.ok /\ r.rest = <<>> THEN r ELSE ParseFail

----------------------------------------------------------------------------
(* Book records and the value load_library returns.                        *)

Book(t, a, y, g, r) ==
  [Title |-> t, Author |-> a, Year |-> y, Genre |-> g, Read |-> r]

\* the file: absent, or present with a token text
NoFile == [exists |-> FALSE, data |-> <<>>]
File(ts) == [exists |-> TRUE, data |-> ts]

\* load_library(): FileNotFoundError and JSONDecodeError give [], anything
\* json.load accepts is returned as it is
load_library(d) ==
  IF ~d.exists THEN JList(<<>>)
  ELSE LET r == json_load(d.data)
       IN IF r.ok THEN r.val ELSE JList(<<>>)

\* dict lookups on a parsed object: a repeated key keeps its last value
HasKey(o, name) == \E i \in 1..Len(o.v) : o.v[i].key = <<name>>
Get(o, name) ==
  LET i == CHOOSE j \in 1..Len(o.v) :
             /\ o.v[j].key = <<name>>
             /\ \A k \in (j + 1)..Len(o.v) : o.v[k].key # <<name>>
  IN o.v[i].val

FieldNames == {"Title", "Author", "Year", "Genre", "Read"}

\* a dict with exactly the five fields of a book, each of its type
IsBookObj(o) ==
  /\ o.t = "obj"
  /\ \A i \in 1..Len(o.v) : \E f \in FieldNames : o.v[i].key = <<f>>
  /\ \A f \in FieldNames : HasKey(o, f)
  /\ Get(o, "Title").t = "str"
  /\ Get(o, "Author").t = "str"
  /\ Get(o, "Year").t = "int"
  /\ Get(o, "Genre").t = "str"
  /\ Get(o, "Read").t = "bool"

\* a list of book dicts: the List[Dict] every operation expects
IsBookList(v) == v.t = "list" /\ \A i \in 1..Len(v.v) : IsBookObj(v.v[i])

AsBook(o) ==
  Book(Get(o, "Title").v, Get(o, "Author").v, Get(o, "Year").v,
       Get(o, "Genre").v, Get(o, "Read").v)

AsBooks(v) == [i \in 1..Len(v.v) |-> AsBook(v.v[i])]

----------------------------------------------------------------------------
(* The operations on the in-memory list.                                   *)

\* FirstMatch resolving to the last book with the title
FirstMatchLast(lib, title) ==
  LET M == {i \in 1..Len(lib) : Lower(lib[i].Title) = Lower(title)}
  IN IF M = {} THEN 0 ELSE CHOOSE i \in M : \A j \in M : j <= i

\* for book in library: if book["Title"].lower() == title.lower()
\* the index of the first such book, 0 when there is none
FirstMatch(lib, title) ==
  LET M == {i \in 1..Len(lib) : Lower(lib[i].Title) = Lower(title)}
  IN IF M = {} THEN 0 ELSE CHOOSE i \in M : \A j \in M : i <= j

\* list.remove(x): drops the first element equal to x
ListRemove(lib, x) ==
  LET j == CHOOSE i \in 1..Len(lib) :
             lib[i] = x /\ \A k \in 1..(i - 1) : lib[k] # x
  IN [i \in 1..(Len(lib) - 1) |-> IF i < j THEN lib[i] ELSE lib[i + 1]]

\* get_valid_input(...).strip().lower() == "yes"
IsYes(answer) == Lower(Strip(answer)) = <<"y", "e", "s">>

\* add_book of the menu: a holds what the five prompts returned
cli_add_book(lib, a) ==
  Append(lib, Book(a.Title, a.Author, a.Year, a.Genre, IsYes(a.Read)))

\* remove_book: the loop and its two messages
remove_book(lib, title) ==
  LET i == FirstMatch(lib, title)
  IN IF i = 0 THEN [library |-> lib, msg |-> "not_found"]
     ELSE [library |-> ListRemove(lib, lib[i]), msg |-> "removed"]

\* x or y on str / int: x when truthy, else y
OrStr(x, y) == IF Truthy(x) THEN x ELSE y
OrInt(x, y) == IF x # 0 THEN x ELSE y

\* edit_book of the menu: a holds what the five prompts returned
cli_edit_book(lib, title, a) ==
  LET i == FirstMatch(lib, title)
  IN IF i = 0 THEN [library |-> lib, msg |-> "not_found"]
     ELSE LET b == lib[i]
              nb == Book(OrStr(a.Title, b.Title), OrStr(a.Author, b.Author),
                         OrInt(a.Year, b.Year), OrStr(a.Genre, b.Genre),
                         IsYes(a.Read))
          IN [library |-> [lib EXCEPT ![i] = nb], msg |-> "updated"]

\* search_book of the menu: the choice is read and not used
cli_search_book(lib, choice, query) ==
  LET q == Lower(Strip(query))
  IN SelectSeq(lib, LAMBDA b : Contains(Lower(b.Title), q)
                               \/ Contains(Lower(b.Author), q))

\* search_book of the form
web_search_book(lib, search_by, query) ==
  SelectSeq(lib, LAMBDA b : Contains(Lower(b[search_by]), Lower(query)))

\* x[sort_by] < y[sort_by]
KeyLess(sort_by, x, y) ==
  IF sort_by = "Year" THEN x.Year < y.Year
  ELSE StrLess(x[sort_by], y[sort_by])

RECURSIVE InsertSorted(_, _, _)
InsertSorted(acc, b, sort_by) ==
  IF acc = <<>> THEN <<b>>
  ELSE IF KeyLess(sort_by, b, Head(acc)) THEN <<b>> \o acc
  ELSE <<Head(acc)>> \o InsertSorted(Tail(acc), b, sort_by)

RECURSIVE sorted(_, _)
\* sorted(library, key=lambda x: x[sort_by]): a new list, stable
sorted(lib, sort_by) ==
  IF lib = <<>> THEN <<>>
  ELSE InsertSorted(sorted(SubSeq(lib, 1, Len(lib) - 1), sort_by),
                    lib[Len(lib)], sort_by)

\* display_books sorting the caller's list itself (library.sort)
display_books_inplace(lib, sort_by) ==
  IF lib = <<>> THEN [msg |-> "empty", view |-> <<>>, library |-> lib]
  ELSE LET shown == IF sort_by # "" THEN sorted(lib, sort_by) ELSE lib
       IN [msg |-> "table", view |-> shown, library |-> shown]

\* display_books(library, sort_by): the rows shown, and the caller's list
\* after the call (sorted() rebinds the parameter only); sort_by = "" is None
display_books(lib, sort_by) ==
  IF lib = <<>> THEN [msg |-> "empty", view |-> <<>>, library |-> lib]
  ELSE LET shown == IF sort_by # "" THEN sorted(lib, sort_by) ELSE lib
       IN [msg |-> "table", view |-> shown, library |-> lib]

\* sum(1 for book in library if book["Read"])
RECURSIVE CountRead(_)
CountRead(lib) ==
  IF lib = <<>> THEN 0
  ELSE (IF Head(lib).Read THEN 1 ELSE 0) + CountRead(Tail(lib))

\* f"{x:.2f}" of read / total * 100, in hundredths of a percent
Hundredths(read, total) == (20000 * read + total) \div (2 * total)

\* display_statistics counting the unread books
display_statistics_unread(lib) ==
  LET total_books == Len(lib)
      read_books == Len(lib) - CountRead(lib)
  IN [msg |-> "stats", total_books |-> total_books, read_books |-> read_books,
      percentage_read |-> IF total_books > 0
                          THEN Hundredths(read_books, total_books) ELSE 0]

\* display_statistics: total_books, read_books and the percentage shown;
\* no read count of 5 books or fewer is a tie at the third decimal
display_statistics(lib) ==
  LET total_books == Len(lib)
      read_books == CountRead(lib)
  IN [msg |-> "stats", total_books |-> total_books, read_books |-> read_books,
      percentage_read |-> IF total_books > 0
                          THEN Hundredths(read_books, total_books) ELSE 0]

----------------------------------------------------------------------------
(* Inputs: the values the prompts (get_valid_input, Prompt.ask) and the    *)
(* form widgets return.  get_valid_input returns any str, and for int asks *)
(* again until int() accepts the text, so a year is any int.               *)

Du == <<"D", "u">>
du == <<"d", "u">>
No == <<"n", "o">>
Yes == <<"Y", "E", "S", " ">>

\* the field values of an add: a plain book, a second one whose title
\* differs in case only, and ones with an empty or blank required field.
\* Read holds the answer typed at the menu's yes/no prompt.
NewBooks ==
  { Book(Du, <<"H">>, 1965, <<"S">>, No),
    Book(du, <<"H">>, 0, <<"S">>, Yes),
    Book(<<>>, <<"H">>, 1965, <<"S">>, <<>>),
    Book(<<" ">>, <<"H">>, 0, <<"S">>, No),
    Book(Du, <<>>, 1965, <<>>, Yes) }

\* the field values of an edit: nothing typed, and some fields typed
NewFields ==
  { Book(<<>>, <<>>, 0, <<>>, <<>>),
    Book(du, <<>>, 1965, <<>>, Yes),
    Book(<<>>, <<"h">>, 0, <<"S">>, No) }

\* the title typed to remove or edit
Titles == {du, <<>>}
Queries == {<<"D">>, <<"h", " ">>}
SortFields == {"Title", "Author", "Year", "Genre"}
SearchFields == {"Title", "Author"}

Dune == Book(<<"D", "u">>, <<"H">>, 1965, <<"S">>, FALSE)

\* the backing file a session may find: none, text that is not JSON, an
\* empty list, a saved library, and JSON that is not a list of book dicts
InitialFiles ==
  { NoFile,
    File(<<Tok("["), Tok("{")>>),
    File(json_dump(<<>>)),
    File(json_dump(<<Dune>>)),
    File(<<Tok("["), Tok("{"), KeyTok("Title"), Tok(":"),
           StrTok(<<"D", "u">>), Tok("}"), Tok("]")>>),
    File(<<Tok("{"), Tok("}")>>) }

\* how a write of the file can end: done; open() raises and the file is as
\* it was; the write raises after open() truncated the file (what is left
\* is a proper prefix of the text, which never parses: kept as the empty one)
SaveOutcomes == {"ok", "open_fails", "write_fails"}

\* save_library(library): the file afterwards, and whether it raised
save_library(d, lib, outcome) ==
  CASE outcome = "ok" -> [disk |-> File(json_dump(lib)), raised |-> FALSE]
    [] outcome = "open_fails" -> [disk |-> d, raised |-> TRUE]
    [] OTHER -> [disk |-> File(<<>>), raised |-> TRUE]

NoArg == [none |-> TRUE]

----------------------------------------------------------------------------
(* The sessions.  ui is the front-end; pc is "start" before main() has     *)
(* loaded the file, "menu" in the loop, "done" after Exit, "crashed" after *)
(* an exception left main(), "illshaped" when load_library returned a      *)
(* value that is not a list of book dicts (what the operations do with     *)
(* such a value is not modelled).  library is the list main() holds; op,   *)
(* arg and out record the last operation, its inputs and what it showed.   *)

Init ==
  /\ ui \in {"cli", "web"}
  /\ pc = "start"
  /\ disk \in InitialFiles
  /\ loaded = JList(<<>>)
  /\ library = <<>>
  /\ op = "none"
  /\ arg = NoArg
  /\ out = [msg |-> "none"]
  /\ nops = 0

\* main(): library = load_library()
Start ==
  /\ pc = "start"
  /\ loaded' = load_library(disk)
  /\ IF IsBookList(loaded')
     THEN library' = AsBooks(loaded') /\ pc' = "menu"
     ELSE library' = <<>> /\ pc' = "illshaped"
  /\ op' = "load"
  /\ arg' = NoArg
  /\ out' = [msg |-> "loaded"]
  /\ UNCHANGED <<ui, disk, nops>>

InMenu(front) == pc = "menu" /\ ui = front

\* the list an operation starting now works on: the menu keeps its list,
\* the form's script runs main() again and loads the file
Current == IF ui = "web" THEN AsBooks(load_library(disk)) ELSE library

\* choice 1: add_book, no validation and no save
cli_add ==
  /\ InMenu("cli") /\ nops < MaxOps
  /\ \E a \in NewBooks :
       /\ library' = cli_add_book(library, a)
       /\ arg' = a
  /\ op' = "add"
  /\ out' = [msg |-> "added"]
  /\ nops' = nops + 1
  /\ UNCHANGED <<ui, pc, disk, loaded>>

\* choice 2: remove_book
cli_remove ==
  /\ InMenu("cli") /\ nops < MaxOps
  /\ \E t \in Titles :
       LET r == remove_book(library, t)
       IN /\ library' = r.library
          /\ out' = [msg |-> r.msg]
          /\ arg' = [title |-> t]
  /\ op' = "remove"
  /\ nops' = nops + 1
  /\ UNCHANGED <<ui, pc, disk, loaded>>

\* choice 3: edit_book
cli_edit ==
  /\ InMenu("cli") /\ nops < MaxOps
  /\ \E t \in Titles, a \in NewFields :
       LET e == cli_edit_book(library, t, a)
       IN /\ library' = e.library
          /\ out' = [msg |-> e.msg]
          /\ arg' = [title |-> t, new |-> a]
  /\ op' = "edit"
  /\ nops' = nops + 1
  /\ UNCHANGED <<ui, pc, disk, loaded>>

\* choice 4: search_book
cli_search ==
  /\ InMenu("cli")
  /\ \E f \in SearchFields, q \in Queries :
       /\ out' = LET res == cli_search_book(library, f, q)
                 IN [msg |-> IF res # <<>> THEN "table" ELSE "no_match",
                     view |-> res]
       /\ arg' = [field |-> f, query |-> q]
  /\ op' = "search"
  /\ UNCHANGED <<ui, pc, disk, loaded, library, nops>>

\* choice 5: display_books(library)
cli_display ==
  /\ InMenu("cli")
  /\ LET d == display_books(library, "")
     IN /\ out' = [msg |-> d.msg, view |-> d.view]
        /\ library' = d.library
  /\ op' = "display"
  /\ arg' = NoArg
  /\ UNCHANGED <<ui, pc, disk, loaded, nops>>

\* choice 6: display_statistics
cli_stats ==
  /\ InMenu("cli")
  /\ out' = display_statistics(library)
  /\ op' = "stats"
  /\ arg' = NoArg
  /\ UNCHANGED <<ui, pc, disk, loaded, library, nops>>

\* choice 7: display_books(library, sort_by)
cli_sort ==
  /\ InMenu("cli")
  /\ \E f \in SortFields :
       LET d == display_books(library, f)
       IN /\ out' = [msg |-> d.msg, view |-> d.view]
          /\ library' = d.library
          /\ arg' = [sort_by |-> f]
  /\ op' = "sort"
  /\ UNCHANGED <<ui, pc, disk, loaded, nops>>

\* choice 8: save_library(library), then break; an exception leaves main()
cli_exit ==
  /\ InMenu("cli")
  /\ \E o \in SaveOutcomes :
       LET s == save_library(disk, library, o)
       IN /\ disk' = s.disk
          /\ pc' = IF s.raised THEN "crashed" ELSE "done"
          /\ out' = [msg |-> IF s.raised THEN "exception" ELSE "saved"]
  /\ op' = "exit"
  /\ arg' = NoArg
  /\ UNCHANGED <<ui, loaded, library, nops>>

(* The form front-end.  Every interaction runs the script from the top:   *)
(* main() loads the file, then the chosen page's function runs once.  An   *)
(* exception ends that run and is shown on the page; the session goes on.  *)

\* add_book of the form, on "Add Book": the list, the message, and whether
\* save_library is called
web_add_book(lib, a) ==
  IF Truthy(a.Title) /\ Truthy(a.Author) /\ Truthy(a.Genre)
  THEN [library |-> Append(lib, Book(a.Title, a.Author, a.Year, a.Genre, a.Read)),
        msg |-> "added", save |-> TRUE]
  ELSE [library |-> lib, msg |-> "fill_in_all_fields", save |-> FALSE]

\* remove_book of the form, on "Remove Book"
web_remove_book(lib, title) ==
  LET r == remove_book(lib, title)
  IN [library |-> r.library, msg |-> r.msg, save |-> r.msg = "removed"]

\* edit_book of the form.  st.button("Search") is True only in the run its
\* own click started.  In that run each widget of the form is new and
\* returns its value= argument, and st.form_submit_button is False.  The run
\* that "Save Changes" starts finds st.button("Search") False and does not
\* reach the form.
web_edit_book(lib, title, search_clicked) ==
  LET i == FirstMatch(lib, title)
  IN IF ~search_clicked THEN [library |-> lib, msg |-> "none", save |-> FALSE]
     ELSE IF i = 0 THEN [library |-> lib, msg |-> "not_found", save |-> FALSE]
     ELSE LET b == lib[i]
              nb == Book(b.Title, b.Author, b.Year, b.Genre, b.Read)
          IN [library |-> [lib EXCEPT ![i] = nb], msg |-> "form", save |-> FALSE]

\* the form's checkbox in place of the typed answer
Checked(a) == [a EXCEPT !.Read = IsYes(a.Read)]

\* the end of a run of the script: r is what the page's function did
WebRun(r, o) ==
  LET s == IF r.save THEN save_library(disk, r.library, o)
           ELSE [disk |-> disk, raised |-> FALSE]
  IN /\ library' = r.library
     /\ disk' = s.disk
     /\ out' = [msg |-> IF s.raised THEN "exception" ELSE r.msg]

web_add ==
  /\ InMenu("web") /\ nops < MaxOps
  /\ \E a \in NewBooks, o \in SaveOutcomes :
       /\ WebRun(web_add_book(Current, Checked(a)), o)
       /\ arg' = Checked(a)
  /\ op' = "add"
  /\ nops' = nops + 1
  /\ UNCHANGED <<ui, pc, loaded>>

web_remove ==
  /\ InMenu("web") /\ nops < MaxOps
  /\ \E t \in Titles, o \in SaveOutcomes :
       /\ WebRun(web_remove_book(Current, t), o)
       /\ arg' = [title |-> t]
  /\ op' = "remove"
  /\ nops' = nops + 1
  /\ UNCHANGED <<ui, pc, loaded>>

\* "Search" on the edit page
web_edit_search ==
  /\ InMenu("web")
  /\ \E t \in Titles :
       /\ WebRun(web_edit_book(Current, t, TRUE), "ok")
       /\ arg' = [title |-> t]
  /\ op' = "edit_search"
  /\ UNCHANGED <<ui, pc, loaded, nops>>

\* "Save Changes" on the form the last run showed
web_edit_submit ==
  /\ InMenu("web") /\ op = "edit_search" /\ out.msg = "form"
  /\ \E a \in NewFields :
       /\ WebRun(web_edit_book(Current, arg.title, FALSE), "ok")
       /\ arg' = [title |-> arg.title, new |-> Checked(a)]
  /\ op' = "edit"
  /\ UNCHANGED <<ui, pc, loaded, nops>>

web_search ==
  /\ InMenu("web")
  /\ \E f \in SearchFields, q \in Queries :
       /\ out' = LET res == web_search_book(Current, f, q)
                 IN [msg |-> IF res # <<>> THEN "table" ELSE "no_match",
                     view |-> res]
       /\ arg' = [field |-> f, query |-> q]
  /\ library' = Current
  /\ op' = "search"
  /\ UNCHANGED <<ui, pc, disk, loaded, nops>>

\* display_books of the form: the list as it is
web_display ==
  /\ InMenu("web")
  /\ out' = [msg |-> IF Current = <<>> THEN "empty" ELSE "table",
             view |-> Current]
  /\ library' = Current
  /\ op' = "display"
  /\ arg' = NoArg
  /\ UNCHANGED <<ui, pc, disk, loaded, nops>>

web_stats ==
  /\ InMenu("web")
  /\ out' = display_statistics(Current)
  /\ library' = Current
  /\ op' = "stats"
  /\ arg' = NoArg
  /\ UNCHANGED <<ui, pc, disk, loaded, nops>>

Next ==
  \/ Start
  \/ cli_add \/ cli_remove \/ cli_edit \/ cli_search
  \/ cli_display \/ cli_stats \/ cli_sort \/ cli_exit
  \/ web_add \/ web_remove \/ web_edit_search \/ web_edit_submit
  \/ web_search \/ web_display \/ web_stats

Spec == Init /\ [][Next]_vars

----------------------------------------------------------------------------
(* Properties.                                                             *)

Blank(s) == Strip(s) = <<>>

\* what a fresh load_library() gives for the file as it is now
Reloaded == load_library(disk)

\* the state follows a save_library that returned
Saved ==
  \/ ui = "cli" /\ op = "exit" /\ out.msg = "saved"
  \/ ui = "web" /\ op \in {"add", "remove"} /\ out.msg \in {"added", "removed"}

\* the case-insensitive title matches of t in lib
Matches(lib, t) == {i \in 1..Len(lib) : Lower(lib[i].Title) = Lower(t)}

\* lib without its i-th element
Without(lib, i) ==
  [j \in 1..(Len(lib) - 1) |-> IF j < i THEN lib[j] ELSE lib[j + 1]]

\* C1: after every add, remove or edit that reported success, the file
\* holds the in-memory list.
C1_WriteThrough ==
  (op \in {"add", "remove", "edit"} /\ out.msg \in {"added", "removed", "updated"})
    => (IsBookList(Reloaded) /\ AsBooks(Reloaded) = library)

\* C2: an add whose title, author or genre is empty or blank reports a
\* validation failure and leaves the list and the file as they were.
C2_BlankAddRejected ==
  [][ (op' = "add" /\ (Blank(arg'.Title) \/ Blank(arg'.Author) \/ Blank(arg'.Genre)))
        => (out'.msg = "fill_in_all_fields" /\ library' = Current /\ disk' = disk)
    ]_vars

\* the book an edit of old with the inputs a is to leave: a typed value
\* replaces the field, an empty input keeps it (a year is always typed)
Wanted(old, a) ==
  Book(IF a.Title # <<>> THEN a.Title ELSE old.Title,
       IF a.Author # <<>> THEN a.Author ELSE old.Author,
       a.Year,
       IF a.Genre # <<>> THEN a.Genre ELSE old.Genre,
       IF ui = "web" THEN a.Read
       ELSE IF Blank(a.Read) THEN old.Read ELSE IsYes(a.Read))

\* C3: an edit of a matching title overwrites, in the first match, the
\* fields that were supplied (year 0 and read false included) and keeps
\* the others; no other book changes.
C3_EditOverwritesSupplied ==
  [][ (op' = "edit" /\ Matches(Current, arg'.title) # {})
        => LET i == FirstMatch(Current, arg'.title)
           IN library' = [Current EXCEPT ![i] = Wanted(Current[i], arg'.new)]
    ]_vars

\* C4: remove with a case-insensitive title match deletes the first match
\* and nothing else, later duplicates included; without a match the list
\* is unchanged and "not found" is reported.
C4_RemoveFirstMatch ==
  [][ op' = "remove"
        => LET M == Matches(Current, arg'.title)
           IN IF M = {}
              THEN library' = Current /\ out'.msg = "not_found"
              ELSE /\ \E i \in M : /\ \A j \in M : i <= j
                                   /\ library' = Without(Current, i)
                   /\ Len(library') = Len(Current) - 1
                   /\ out'.msg \in {"removed", "exception"}
    ]_vars

\* C4 happens: a removal left a later book with a matching title in place
C4_Witness ==
  /\ op = "remove" /\ out.msg = "removed"
  /\ Matches(library, arg.title) # {}
  /\ Len(library) >= 2

\* C5: search returns the books whose chosen field contains the query,
\* case-insensitively, in collection order.
C5_SearchChosenField ==
  op = "search"
    => out.view = SelectSeq(library,
                    LAMBDA b : Contains(Lower(b[arg.field]), Lower(arg.query)))

\* C6: no failure to write the file ends the session with an exception.
C6_SaveFailureContained == pc # "crashed"

\* C7: what load_library returned is a list of complete book records.
C7_LoadYieldsBooks == pc # "start" => IsBookList(loaded)

\* C8: after a save, a fresh load gives the list that was saved, and a
\* lookup by the lower-cased title finds the record the list holds.
C8_RoundTrip ==
  Saved => /\ IsBookList(Reloaded)
           /\ AsBooks(Reloaded) = library
           /\ \A i \in 1..Len(library) :
                LET t == Lower(library[i].Title)
                    k == FirstMatch(AsBooks(Reloaded), t)
                IN k # 0 /\ k <= i /\ AsBooks(Reloaded)[k] = library[FirstMatch(library, t)]

\* C8 happens: a saved list of two books or more, one title not lower case
C8_Witness ==
  /\ Saved /\ Len(library) >= 2
  /\ \E i \in 1..Len(library) : library[i].Title # Lower(library[i].Title)

\* view is lib in non-decreasing order of the field, ties in lib's order
StableSorted(view, lib, f) ==
  /\ Len(view) = Len(lib)
  /\ \E p \in [1..Len(lib) -> 1..Len(lib)] :
       /\ \A i \in 1..Len(lib) : view[i] = lib[p[i]]
       /\ \A i, j \in 1..Len(lib) :
            i < j => \/ KeyLess(f, view[i], view[j])
                     \/ ~KeyLess(f, view[j], view[i]) /\ p[i] < p[j]

\* C9: the sorted listing is the list in non-decreasing order of the named
\* field, ties in insertion order, and the stored list is not changed.
C9_SortIsView ==
  [][ op' = "sort"
        => /\ library' = library
           /\ StableSorted(out'.view, library, arg'.sort_by)
    ]_vars

\* C9 happens: a listing that differs from the stored order and has a tie
C9_Witness ==
  /\ op = "sort" /\ Len(library) >= 3 /\ out.view # library
  /\ \E i, j \in 1..Len(library) :
       i # j /\ library[i][arg.sort_by] = library[j][arg.sort_by]

\* C10: the statistics are the number of books, the number of read books
\* and their ratio as a percentage (to the hundredth shown), 0 for an empty
\* list; the list and the file are not changed.
C10_Statistics ==
  [][ op' = "stats"
        => LET n == Len(Current)
               r == Cardinality({i \in 1..n : Current[i].Read})
               pct == out'.percentage_read
           IN /\ library' = Current /\ disk' = disk
              /\ out'.total_books = n
              /\ out'.read_books = r
              /\ 0 <= r /\ r <= n
              /\ n = 0 => pct = 0
              /\ n > 0 => /\ 2 * (pct * n - 10000 * r) <= n
                          /\ 2 * (10000 * r - pct * n) <= n
    ]_vars

\* C10 happens: three books, two of them read, shown as 66.67
C10_Witness ==
  /\ op = "stats" /\ out.total_books = 3 /\ out.read_books = 2
  /\ out.percentage_read = 6667

====
